---- MODULE Spec2Model ----
(***************************************************************************)
(* A model of src/bot.py: the image catalog (an SQLite table), the asset   *)
(* directory, the three message handlers of ImageBot and the routing that  *)
(* main() registers with the dispatcher.                                   *)
(*                                                                         *)
(* Strings are sequences of characters, so that str.lower() and            *)
(* str.strip() are computed and not assumed.  Every call that can raise    *)
(* (sqlite3.connect/execute, File.download, open, reply_text, reply_photo) *)
(* takes its outcome as an input of the action.                            *)
(***************************************************************************)
EXTENDS Integers, Sequences, FiniteSets, TLC

VARIABLES
    images,   \* the rows of table images: records [id, name, file_path]
    disk,     \* the paths that exist in the file system
    latest,   \* history: lowercased name -> path of the latest committed save_image
    writes,   \* number of state-changing operations so far (bounded)
    last      \* the recorded operation: its inputs, what it called, what it raised

vars == <<images, disk, latest, writes, last>>

-----------------------------------------------------------------------------
(* Bounds *)

MaxWrites == 2    \* state-changing operations in one behaviour

-----------------------------------------------------------------------------
(* Strings *)

Chars == {"a", "A", " "}

None == <<"<None>">>

\* the names, captions and texts tried: empty, blank, one name in both
\* cases, and the same name padded
Strings == {<<>>, <<" ">>, <<"a">>, <<"A">>, <<" ", "A">>}

LowerChar(c) == IF c = "A" THEN "a" ELSE c

\* str.lower()
Lower(s) == [i \in 1..Len(s) |-> LowerChar(s[i])]

IsSpace(c) == c = " "

RECURSIVE LStrip(_)
LStrip(s) == IF s # <<>> /\ IsSpace(Head(s)) THEN LStrip(Tail(s)) ELSE s

RECURSIVE RStrip(_)
RStrip(s) ==
    IF s # <<>> /\ IsSpace(s[Len(s)]) THEN RStrip(SubSeq(s, 1, Len(s) - 1)) ELSE s

\* str.strip()
Strip(s) == RStrip(LStrip(s))

-----------------------------------------------------------------------------
(* Configuration (from config import ...) *)

ADMIN_ID == "admin"

Users == {ADMIN_ID, "other"}

IMAGES_DIR == "images"

ALLOWED_EXTENSIONS == <<".jpg", ".png">>

\* filename = base_name + ext
Filename(base_name, ext) == base_name \o <<ext>>

\* filepath = os.path.join(IMAGES_DIR, filename)
Filepath(base_name, ext) == <<IMAGES_DIR, "/">> \o Filename(base_name, ext)

-----------------------------------------------------------------------------
(* The catalog: table images (id INTEGER PRIMARY KEY, name UNIQUE, ...) *)

MaxId(tbl) == CHOOSE m \in {r.id : r \in tbl} : \A r \in tbl : r.id <= m

\* the rowid SQLite gives a row inserted without an id: 1, or the largest + 1
NewRowid(tbl) == IF tbl = {} THEN 1 ELSE MaxId(tbl) + 1

\* a plain INSERT on a table without the UNIQUE constraint
InsertNoReplace(tbl, name, file_path) ==
    tbl \cup {[id |-> NewRowid(tbl), name |-> name, file_path |-> file_path]}

\* INSERT OR REPLACE INTO images (name, file_path) VALUES (name, file_path):
\* the rows that conflict on UNIQUE(name) are deleted, the new row gets a
\* fresh rowid (chosen before the conflicting rows are deleted).
InsertOrReplace(tbl, name, file_path) ==
    {r \in tbl : r.name # name}
        \cup {[id |-> NewRowid(tbl), name |-> name, file_path |-> file_path]}

\* save_image storing the name as given
SaveImageNoLower(tbl, name, file_path) == InsertOrReplace(tbl, name, file_path)

\* save_image: the statement runs on name.lower()
SaveImage(tbl, name, file_path) == InsertOrReplace(tbl, Lower(name), file_path)

\* SELECT file_path FROM images WHERE name = key; fetchone()
SelectPath(tbl, key) ==
    LET rows == {r \in tbl : r.name = key}
    IN IF rows = {} THEN None ELSE (CHOOSE r \in rows : TRUE).file_path

\* find_image: the query runs on name.lower()
FindImage(tbl, name) == SelectPath(tbl, Lower(name))

\* every key a name can fold to
Keys == {Lower(s) : s \in Strings}

-----------------------------------------------------------------------------
(* The record of one operation.  Any call of a behaviour may be the        *)
(* recorded one: the calls before it change the store and leave no record, *)
(* and the behaviour ends with it.                                         *)

NoOp ==
    [handler |-> "init", via |-> "none", user |-> "none", kind |-> "none",
     name |-> None, key |-> None, result |-> None, raised |-> "none",
     replies |-> <<>>, attempts |-> <<>>, rejected |-> FALSE]

Idle == last = NoOp

Reply(kind, arg) == [kind |-> kind, arg |-> arg]

Init ==
    /\ images = {}
    /\ disk = {}
    /\ latest = [k \in Keys |-> None]
    /\ writes = 0
    /\ last = NoOp

-----------------------------------------------------------------------------
(* Messages: what a handler reads of update.message and effective_user *)

Messages ==
    {[user |-> u, kind |-> k, text |-> None, caption |-> None] :
        u \in Users, k \in {"start", "other"}}
    \cup {[user |-> u, kind |-> "text", text |-> t, caption |-> None] :
        u \in Users, t \in Strings \ {<<>>}}
    \cup {[user |-> u, kind |-> k, text |-> None, caption |-> c] :
        u \in Users, k \in {"photo", "document"}, c \in Strings \cup {None}}

\* update.message.photo or update.message.document
HasAttachment(msg) == msg.kind = "photo" \/ msg.kind = "document"

\* the caption lowercased but not stripped
BaseNameNoStrip(caption) == Lower(IF caption = None THEN <<>> ELSE caption)

\* base_name = (update.message.caption or "").strip().lower()
BaseName(caption) == Lower(Strip(IF caption = None THEN <<>> ELSE caption))

\* the base names an upload can have
UploadKeys == {BaseName(c) : c \in Strings} \ {<<>>}

\* the three early returns of handle_upload, in order; "none" when all pass
Rejection(msg) ==
    IF msg.user # ADMIN_ID THEN "admin_only"
    ELSE IF ~HasAttachment(msg) THEN "need_image"
    ELSE IF BaseName(msg.caption) = <<>> THEN "need_caption"
    ELSE "none"

-----------------------------------------------------------------------------
(* Direct calls of the catalog operations *)

\* save_image(name, file_path); the transaction commits unless sqlite3 raises
CallSaveImage ==
    /\ Idle
    /\ writes < MaxWrites
    /\ \E name \in Strings, base \in UploadKeys,
          i \in 1..Len(ALLOWED_EXTENSIONS), dbok \in BOOLEAN, rec \in BOOLEAN :
        LET file_path == Filepath(base, ALLOWED_EXTENSIONS[i])
        IN /\ images' = IF dbok THEN SaveImage(images, name, file_path) ELSE images
           /\ latest' = IF dbok THEN [latest EXCEPT ![Lower(name)] = file_path]
                        ELSE latest
           /\ last' = IF ~rec THEN NoOp
                      ELSE [NoOp EXCEPT !.handler = "save_image", !.via = "direct",
                                   !.name = name, !.key = Lower(name),
                                   !.result = file_path,
                                   !.raised = IF dbok THEN "none" ELSE "db"]
    /\ writes' = writes + 1
    /\ UNCHANGED disk

\* find_image(name)
CallFindImage ==
    /\ Idle
    /\ \E name \in Strings, dbok \in BOOLEAN :
        last' = [NoOp EXCEPT !.handler = "find_image", !.via = "direct",
                             !.name = name, !.key = Lower(name),
                             !.result = IF dbok THEN FindImage(images, name) ELSE None,
                             !.raised = IF dbok THEN "none" ELSE "db"]
    /\ UNCHANGED <<images, disk, latest, writes>>

\* a file of the asset directory is removed from outside the program
RemoveFile ==
    /\ Idle
    /\ writes < MaxWrites
    /\ \E p \in disk : disk' = disk \ {p}
    /\ writes' = writes + 1
    /\ UNCHANGED <<images, latest, last>>

-----------------------------------------------------------------------------
(* handle_start *)

HandleStart(msg, via) ==
    /\ Idle
    /\ \E replyok \in BOOLEAN :
        last' = [NoOp EXCEPT !.handler = "handle_start", !.via = via,
                    !.user = msg.user, !.kind = msg.kind,
                    !.replies = <<Reply(IF msg.user = ADMIN_ID THEN "admin_help"
                                        ELSE "hello", <<>>)>>,
                    !.raised = IF replyok THEN "none" ELSE "reply"]
    /\ UNCHANGED <<images, disk, latest, writes>>

-----------------------------------------------------------------------------
(* handle_upload *)

\* What one pass of the loop body does, by where it raises:
\*   "dl_fail"     get_file/download raises and leaves no new file
\*   "dl_partial"  download raises after it created the file
\*   "db_fail"     download wrote the file, save_image raises (nothing committed)
\*   "reply_fail"  file written, record committed, reply_text raises
\*   "ok"          all three calls return; the handler returns
Outcomes == {"dl_fail", "dl_partial", "db_fail", "reply_fail", "ok"}

Wrote(o) == o # "dl_fail"

Saved(o) == o \in {"reply_fail", "ok"}

\* the passes the loop can make: it goes on after a pass that raised and
\* returns from the first pass that did not
Runs ==
    {oc \in UNION {[1..n -> Outcomes] : n \in 1..Len(ALLOWED_EXTENSIONS)} :
        /\ \A i \in 1..(Len(oc) - 1) : oc[i] # "ok"
        /\ Len(oc) < Len(ALLOWED_EXTENSIONS) => oc[Len(oc)] = "ok"}

\* for ext in ALLOWED_EXTENSIONS: try: ... return / except Exception: continue
RECURSIVE TryExtensions(_, _, _, _)
TryExtensions(st, base_name, oc, i) ==
    IF i > Len(ALLOWED_EXTENSIONS) THEN st
    ELSE
        LET ext == ALLOWED_EXTENSIONS[i]
            filename == Filename(base_name, ext)
            filepath == Filepath(base_name, ext)
            o == oc[i]
            st1 == [st EXCEPT
                !.attempts = Append(@, [ext |-> ext, outcome |-> o]),
                !.disk = IF Wrote(o) THEN @ \cup {filepath} ELSE @,
                !.images = IF Saved(o) THEN SaveImage(@, base_name, filepath) ELSE @,
                !.latest = IF Saved(o) THEN [@ EXCEPT ![Lower(base_name)] = filepath]
                           ELSE @,
                !.replies = IF Saved(o) THEN Append(@, Reply("saved", filename)) ELSE @,
                !.returned = (o = "ok")]
        IN IF o = "ok" THEN st1 ELSE TryExtensions(st1, base_name, oc, i + 1)

\* the early returns: one reply, nothing else
RejectUpload(msg, via) ==
    /\ Idle
    /\ Rejection(msg) # "none"
    /\ \E replyok \in BOOLEAN :
        last' = [NoOp EXCEPT !.handler = "handle_upload", !.via = via,
                    !.user = msg.user, !.kind = msg.kind, !.name = msg.caption,
                    !.key = BaseName(msg.caption), !.rejected = TRUE,
                    !.replies = <<Reply(Rejection(msg), <<>>)>>,
                    !.raised = IF replyok THEN "none" ELSE "reply"]
    /\ UNCHANGED <<images, disk, latest, writes>>

\* the extension loop and the reply after it
StoreUpload(msg, via) ==
    /\ Idle
    /\ Rejection(msg) = "none"
    /\ writes < MaxWrites
    /\ \E oc \in Runs, rec \in BOOLEAN :
       \E finalok \in (IF oc[Len(oc)] = "ok" THEN {TRUE} ELSE BOOLEAN) :
        LET base_name == BaseName(msg.caption)
            st == TryExtensions(
                    [images |-> images, disk |-> disk, latest |-> latest,
                     attempts |-> <<>>, replies |-> <<>>, returned |-> FALSE],
                    base_name, oc, 1)
        IN /\ images' = st.images
           /\ disk' = st.disk
           /\ latest' = st.latest
           /\ last' = IF ~rec THEN NoOp
                      ELSE [NoOp EXCEPT !.handler = "handle_upload", !.via = via,
                    !.user = msg.user, !.kind = msg.kind, !.name = msg.caption,
                    !.key = base_name, !.attempts = st.attempts,
                    !.replies = IF st.returned THEN st.replies
                                ELSE Append(st.replies, Reply("save_failed", <<>>)),
                    !.raised = IF st.returned \/ finalok THEN "none" ELSE "reply"]
    /\ writes' = writes + 1

HandleUpload(msg, via) == RejectUpload(msg, via) \/ StoreUpload(msg, via)

-----------------------------------------------------------------------------
(* handle_request *)

\* the test without os.path.exists
CanSendNoExists(filepath, dsk) == filepath # None

\* if filepath and os.path.exists(filepath)
CanSend(filepath, dsk) == filepath # None /\ filepath \in dsk

\* where the handler raises: "db" in find_image, "open" in open(filepath),
\* "reply" in reply_photo or reply_text, "none" nowhere
HandleRequest(msg, via) ==
    /\ Idle
    /\ \E fail \in {"none", "db", "open", "reply"} :
        LET base_name == Lower(Strip(msg.text))
            filepath == FindImage(images, base_name)
            send == CanSend(filepath, disk)
        IN /\ fail = "open" => send
           /\ last' = [NoOp EXCEPT !.handler = "handle_request", !.via = via,
                    !.user = msg.user, !.kind = msg.kind, !.name = msg.text,
                    !.key = base_name,
                    !.result = IF fail = "db" THEN None ELSE filepath,
                    !.replies = IF fail = "db" \/ fail = "open" THEN <<>>
                                ELSE IF send THEN <<Reply("photo", filepath)>>
                                ELSE <<Reply("not_found", <<>>)>>,
                    !.raised = fail]
    /\ UNCHANGED <<images, disk, latest, writes>>

-----------------------------------------------------------------------------
(* main(): the handlers as registered, and the dispatcher's routing *)

\* the chat a message arrives in: the private chat of its sender, whose id is
\* the sender's id, or a group chat
ChatIds(msg) == {msg.user, "group"}

\* CommandHandler("start", ...)
StartFilter(msg) == msg.kind = "start"

\* (Filters.photo | Filters.document) & Filters.chat(ADMIN_ID)
UploadFilter(msg, chat_id) == HasAttachment(msg) /\ chat_id = ADMIN_ID

\* Filters.text & ~Filters.command
RequestFilter(msg) == msg.kind = "text"

\* an update no handler matches is dropped without a reply
Unhandled(msg) ==
    /\ Idle
    /\ last' = [NoOp EXCEPT !.handler = "none", !.via = "dispatch",
                            !.user = msg.user, !.kind = msg.kind,
                            !.name = msg.caption]
    /\ UNCHANGED <<images, disk, latest, writes>>

\* the first handler whose filter matches gets the update
Dispatch ==
    \E msg \in Messages : \E chat_id \in ChatIds(msg) :
        \/ StartFilter(msg) /\ HandleStart(msg, "dispatch")
        \/ ~StartFilter(msg) /\ UploadFilter(msg, chat_id)
              /\ HandleUpload(msg, "dispatch")
        \/ ~StartFilter(msg) /\ ~UploadFilter(msg, chat_id) /\ RequestFilter(msg)
              /\ HandleRequest(msg, "dispatch")
        \/ ~StartFilter(msg) /\ ~UploadFilter(msg, chat_id) /\ ~RequestFilter(msg)
              /\ Unhandled(msg)

\* the handlers called on their own
CallHandleStart == \E msg \in Messages : HandleStart(msg, "direct")

CallHandleUpload == \E msg \in Messages : HandleUpload(msg, "direct")

CallHandleRequest ==
    \E msg \in Messages : msg.kind = "text" /\ HandleRequest(msg, "direct")

Next ==
    \/ CallSaveImage
    \/ CallFindImage
    \/ RemoveFile
    \/ CallHandleStart
    \/ CallHandleUpload
    \/ CallHandleRequest
    \/ Dispatch

Spec == Init /\ [][Next]_vars

-----------------------------------------------------------------------------
(* Properties *)

Handlers == {"handle_start", "handle_upload", "handle_request"}

RowsOf(key) == {r \in images : r.name = key}

HasReply(kind) == \E i \in 1..Len(last.replies) : last.replies[i].kind = kind

\* C1: a lookup that returns, by find_image directly or inside
\* handle_request, returns the path of the latest committed save_image whose
\* lowercased name equals the lowercased lookup name (None when there is
\* none), whatever the case of the names given to either call.
C1_LookupReturnsLatestUpsert ==
    /\ (last.handler = "find_image" /\ last.raised = "none")
          => last.result = latest[Lower(last.name)]
    /\ (last.handler = "handle_request" /\ last.raised # "db")
          => last.result = latest[Lower(Strip(last.name))]

\* C1 witness: after two writes the record of "a" has been replaced, and the
\* lookup of "A" returns the replacing path.
C1_Witness ==
    /\ last.handler = "find_image"
    /\ last.name = <<"A">>
    /\ writes = 2
    /\ \E r \in images : r.name = <<"a">> /\ r.id = 2 /\ last.result = r.file_path

\* C2: the table never holds two rows whose names are equal after case
\* folding, and every stored name is lowercase.
C2_OneLowercaseRecordPerName ==
    /\ \A r1, r2 \in images : Lower(r1.name) = Lower(r2.name) => r1 = r2
    /\ \A r \in images : r.name = Lower(r.name)

\* C2 witness: a save_image of "A" came after a save of the same folded name:
\* one row is left, under the name "a", with the second rowid.
C2_Witness ==
    /\ last.handler = "save_image"
    /\ last.name = <<"A">>
    /\ last.raised = "none"
    /\ images = {[id |-> 2, name |-> <<"a">>, file_path |-> last.result]}

\* the preconditions of an upload, read off the message: the sender is the
\* admin, there is a photo or a document, the caption has a non-blank character
ViolatesPrecondition(op) ==
    \/ op.user # ADMIN_ID
    \/ op.kind \notin {"photo", "document"}
    \/ op.name = None
    \/ \A i \in 1..Len(op.name) : op.name[i] = " "

\* C5: a handle_upload whose message violates a precondition leaves the table
\* and the directory as they were and attempts no download.
C5_RejectedUploadTouchesNothing ==
    [][(last'.handler = "handle_upload" /\ ViolatesPrecondition(last'))
          => /\ images' = images
             /\ disk' = disk
             /\ latest' = latest
             /\ last'.attempts = <<>>]_vars

\* C5 witness: the admin's photo with a blank caption is rejected while the
\* table and the directory are not empty.
C5_Witness ==
    /\ last.handler = "handle_upload"
    /\ last.user = ADMIN_ID
    /\ last.kind = "photo"
    /\ last.name = <<" ">>
    /\ HasReply("need_caption")
    /\ images # {}
    /\ disk # {}

\* C5 witness for the other two preconditions is the same state with another
\* sender or another kind of message; this one is the sender.
C5_WitnessNonAdmin ==
    /\ last.handler = "handle_upload"
    /\ last.user # ADMIN_ID
    /\ last.kind = "photo"
    /\ last.name = <<"a">>
    /\ HasReply("admin_only")
    /\ images # {}

\* C7: handle_request sends a photo only when the folded key has a row and
\* the row's file exists, and then it sends that file; when find_image
\* returned and the key has no row, or the row's file is not on disk, the
\* handler's only reply is the not-found text.
C7_RequestSendsOnlyExistingFile ==
    last.handler = "handle_request" =>
        LET rows == RowsOf(Lower(Strip(last.name)))
            present == \E r \in rows : r.file_path \in disk
        IN /\ \A i \in 1..Len(last.replies) :
                last.replies[i].kind = "photo" =>
                    \E r \in rows : r.file_path \in disk
                                       /\ last.replies[i].arg = r.file_path
           /\ (last.raised # "db" /\ ~present)
                => last.replies = <<Reply("not_found", <<>>)>>

\* C7 witness: the key has a row, its file is not on disk, the reply is
\* not-found.
C7_Witness ==
    /\ last.handler = "handle_request"
    /\ last.name = <<" ", "A">>
    /\ RowsOf(<<"a">>) # {}
    /\ \A r \in RowsOf(<<"a">>) : r.file_path \notin disk
    /\ last.replies = <<Reply("not_found", <<>>)>>

\* C7 witness of the other side: the file is there and is sent.
C7_WitnessSent ==
    /\ last.handler = "handle_request"
    /\ HasReply("photo")

-----------------------------------------------------------------------------
(* Statements the code does not satisfy *)

FilesOf(base_name) ==
    {p \in disk : \E i \in 1..Len(ALLOWED_EXTENSIONS) :
        p = Filepath(base_name, ALLOWED_EXTENSIONS[i])}

SomeAttemptWorked(op) ==
    \E i \in 1..Len(op.attempts) : op.attempts[i].outcome = "ok"

\* C3: after a handle_upload in which one extension worked there is exactly
\* one file of the base name on disk, exactly one row of the name, and the
\* row's path is that file.
C3_OneFileOneRecord ==
    (last.handler = "handle_upload" /\ SomeAttemptWorked(last)) =>
        /\ Cardinality(FilesOf(last.key)) = 1
        /\ Cardinality(RowsOf(last.key)) = 1
        /\ \A r \in RowsOf(last.key) : r.file_path \in FilesOf(last.key)

\* C4: a handle_upload in which every extension attempt failed replies with
\* the storage failure text and leaves no new row and no new file.
C4_FailedUploadLeavesNothing ==
    [][(last'.handler = "handle_upload" /\ ~last'.rejected
            /\ ~SomeAttemptWorked(last'))
          => /\ \E i \in 1..Len(last'.replies) :
                    last'.replies[i].kind = "save_failed"
             /\ images' = images
             /\ disk' \subseteq disk]_vars

\* C6: an update with a photo or a document from a user who is not the admin,
\* routed as main() registers the handlers, is answered with the admin-only
\* rejection.
C6_NonAdminUploadRejected ==
    (last.via = "dispatch" /\ last.user # ADMIN_ID
        /\ last.kind \in {"photo", "document"})
      => HasReply("admin_only")

\* C8: no handler lets a failure of the catalog storage, of a download or of
\* opening the file escape: it returns normally.
C8_NoErrorEscapes ==
    last.handler \in Handlers => last.raised \notin {"db", "open"}

\* C9: a row keeps its id: a name that has a row before and after a step has
\* the same id in both.
C9_IdImmutable ==
    [][\A r1 \in images : \A r2 \in images' :
            r1.name = r2.name => r1.id = r2.id]_vars

\* C10: handle_upload tries the extensions in list order and the pass whose
\* download wrote its file is the last one; when a save_image of the upload
\* committed, the row of the name holds the path of that first written file.
C10_StopsAtFirstWrittenFile ==
    last.handler = "handle_upload" =>
        \A i \in 1..Len(last.attempts) :
            /\ last.attempts[i].ext = ALLOWED_EXTENSIONS[i]
            /\ last.attempts[i].outcome \in {"db_fail", "reply_fail", "ok"}
                => /\ Len(last.attempts) = i
                   /\ (\E j \in 1..Len(last.attempts) :
                            last.attempts[j].outcome \in {"reply_fail", "ok"})
                        => \E r \in RowsOf(last.key) :
                             r.file_path = Filepath(last.key, last.attempts[i].ext)

====
